---------------------------- MODULE Spec2Model ----------------------------
(***************************************************************************)
(* Model of the tool-calling agent of agentops-demo                        *)
(* (agent_development/agent/notebooks/app.py).                             *)
(*                                                                         *)
(* One invocation of the compiled LangGraph workflow is modelled step by   *)
(* step: the retry loop of call_model (one action per model-call attempt), *)
(* the router should_continue, the tools node, and the two response        *)
(* adapters predict and predict_stream.  Both adapters iterate over        *)
(* self.agent.stream(request, stream_mode="updates") with the same         *)
(* request; they are run here side by side over the same sequence of node  *)
(* updates (same input, same model replies, same tool results), which is   *)
(* what lets the buffered and the streamed output be compared.             *)
(***************************************************************************)
EXTENDS Integers, Sequences, FiniteSets, TLC

VARIABLES
    request,        \* request["messages"]: the converted caller input
    messages,       \* state["messages"] of the running graph
    node,           \* node about to run: "agent", "tools", "END", "FAILED"
    failing,        \* call_model local
    retry,          \* call_model local
    response,       \* call_model local: <<>> while unbound, <<msg>> once bound
    attempts,       \* model_runnable.invoke calls made in the current agent step
    firstReply,     \* reply of the first successful attempt of the current step
    modelInput,     \* what the last model-call attempt received
    results,        \* tools node: per-request result, <<>> while still running
    completed,      \* tools node: request indices in completion order
    event,          \* node update yielded by agent.stream, not yet consumed
    path,           \* nodes executed so far, in order
    fault,          \* exception raised out of the graph, "none" if none
    predictMsgs,    \* predict: the local list `messages`
    predictStatus,  \* "running", "returned" or the exception predict raised
    chunks,         \* predict_stream: chunks yielded so far
    streamStatus    \* "running", "stopped" or the exception the generator raised

\* convert_databricks_to_jupyter.py, run on a directory
VARIABLES
    firstLine,      \* per .py file: its first line, as characters
    recursive,      \* args.recursive
    cpc,            \* position in main: "start", "converting", "done"
    notebooks,      \* what find_databricks_notebooks returned
    foundCount,     \* the number printed as found
    todo,           \* notebooks the loop of main has not reached yet
    written,        \* files for which an .ipynb was written
    skipped         \* files convert_file returned from with a warning

convVars == <<firstLine, recursive, cpc, notebooks, foundCount, todo, written,
              skipped>>

\* two invocations running concurrently on the same LangGraphChatAgent
VARIABLES
    pinput,         \* per invocation: request["messages"]
    pcells,         \* the conversation states held by running graphs
    pnode,          \* per invocation: node about to run
    pown,           \* per invocation: what its own model and tool calls returned
    presp,          \* per invocation: the messages handed to its caller
    pstatus,        \* per invocation: "running", "returned" or the exception
    pretry,         \* per invocation: retry when call_model last returned
    pfails          \* per invocation: failed model calls of each agent step

pairVars == <<pinput, pcells, pnode, pown, presp, pstatus, pretry, pfails>>

\* the variables of the other programs, which an invocation leaves alone
others == <<convVars, pairVars>>

vars == <<request, messages, node, failing, retry, response, attempts,
          firstReply, modelInput, results, completed, event, path, fault,
          predictMsgs, predictStatus, chunks, streamStatus>>

---------------------------------------------------------------------------
(* Bounds of the model *)

\* tool round-trips of each of two concurrent invocations
PairRounds == 1

\* characters of the first line of a .py file
MaxLineLen == 2

\* tool round-trips followed for a language model that asks for a tool in
\* every reply
LoopRounds == 3

\* tool round-trips the modelled language model may ask for in one invocation
MaxRounds == 1
\* tool calls the modelled language model may put in one reply
MaxCalls == 2

(* Program constants *)

\* retry = 10
RetryBudget == 10

system_prompt == "You are a Databricks expert. "

\* tools = uc_tools + [retrieve_function]
tools == {"execute_python_code", "summarize", "translate", "retrieve_function"}

\* tool names the modelled language model may put in a tool call: one bound
\* tool and one name no tool is registered under
RequestedNames == {"execute_python_code", "no_such_tool"}

---------------------------------------------------------------------------
(* Messages *)

Msg(role, content, hasCalls, calls, callId, failed) ==
    [role |-> role, content |-> content, has_tool_calls |-> hasCalls,
     tool_calls |-> calls, tool_call_id |-> callId, failed |-> failed]

UserMsg(text) == Msg("user", text, FALSE, <<>>, 0, FALSE)

SystemMsg == Msg("system", system_prompt, FALSE, <<>>, 0, FALSE)

\* ids of the tool calls of the reply of agent step `step` (unique per call)
CallId(step, i) == step * 10 + i

ToolCall(step, i, name) == [id |-> CallId(step, i), name |-> name]

NameSeqs(n) == [1..n -> RequestedNames]

\* the replies the language model can give in agent step `step`: no
\* tool_calls field, an empty tool_calls list, or 1..MaxCalls tool calls
FinalReplies ==
    { Msg("assistant", "answer", FALSE, <<>>, 0, FALSE),
      Msg("assistant", "answer", TRUE, <<>>, 0, FALSE) }

ToolReplies(step) ==
    { Msg("assistant", "", TRUE,
          [i \in 1..n |-> ToolCall(step, i, names[i])], 0, FALSE) :
        <<n, names>> \in UNION { {n} \X NameSeqs(n) : n \in 1..MaxCalls } }

\* the modelled language model stops asking for tools after MaxRounds rounds;
\* no agent step is modelled beyond the one that follows the last round
Replies(step) ==
    IF step <= MaxRounds THEN FinalReplies \cup ToolReplies(step)
    ELSE IF step = MaxRounds + 1 THEN FinalReplies
    ELSE {}

\* conversations a caller supplies; _convert_messages_to_dict checks nothing
\* about them, so a tool message answering no request is one of them
Inputs ==
    { << UserMsg("2+2?") >>,
      << UserMsg("hi"), Msg("assistant", "hello", FALSE, <<>>, 0, FALSE),
         UserMsg("2+2?") >>,
      << UserMsg("2+2?"), Msg("tool", "4", FALSE, <<>>, 99, FALSE) >> }

Last(s) == s[Len(s)]

AgentSteps == Cardinality({ i \in 1..Len(path) : path[i] = "agent" })

ToolsSteps == Cardinality({ i \in 1..Len(path) : path[i] = "tools" })

---------------------------------------------------------------------------
(* create_tool_calling_agent: router, preprocessor, call_model *)

\* if last_message.get("tool_calls"): return "tools" / return END
should_continue_first(msgs) ==
    IF msgs[1].has_tool_calls /\ Len(msgs[1].tool_calls) > 0
    THEN "tools" ELSE "END"

should_continue_key(msgs) ==
    IF Last(msgs).has_tool_calls THEN "tools" ELSE "END"

should_continue_always(msgs) == "tools"

should_continue_capped(msgs) ==
    IF /\ Last(msgs).has_tool_calls /\ Len(Last(msgs).tool_calls) > 0
       /\ Cardinality({ i \in 1..Len(msgs) : msgs[i].has_tool_calls }) <= 2
    THEN "tools" ELSE "END"

should_continue(msgs) ==
    IF Last(msgs).has_tool_calls /\ Len(Last(msgs).tool_calls) > 0
    THEN "tools" ELSE "END"

\* lambda state: [{"role": "system", "content": system_prompt}] + state["messages"]
preprocessor_tail(msgs) == msgs \o <<SystemMsg>>

preprocessor(msgs) == <<SystemMsg>> \o msgs

\* while failing and retry>=0
LoopCondOffByOne(f, r) == f /\ r >= -1

LoopCond(f, r) == f /\ r >= 0

\* workflow.add_edge("tools", "agent")
tools_edge_end == "END"

tools_edge == "agent"

\* the locals of call_model on entry: failing = True, retry = 10, response unbound
EnterAgent ==
    /\ failing' = TRUE
    /\ retry' = RetryBudget
    /\ response' = <<>>
    /\ attempts' = 0
    /\ firstReply' = <<>>

\* call_model has returned: its locals are gone (held at their entry values);
\* the reply it returned stays on record until the agent node runs again
LeaveAgent ==
    /\ failing' = TRUE
    /\ retry' = RetryBudget
    /\ response' = <<>>
    /\ attempts' = 0
    /\ UNCHANGED firstReply

AgentLocals == <<failing, retry, response, attempts, firstReply>>

ToolsLocals == <<results, completed>>

Adapters == <<predictMsgs, predictStatus, chunks, streamStatus>>

\* response = model_runnable.invoke(state, config) returns; failing = False
AttemptSucceedsWith(replies) ==
    /\ node = "agent" /\ event = <<>> /\ fault = "none"
    /\ LoopCond(failing, retry)
    /\ \E reply \in replies :
          /\ response' = <<reply>>
          /\ firstReply' = IF firstReply = <<>> THEN <<reply>> ELSE firstReply
    /\ modelInput' = preprocessor(messages)
    /\ failing' = FALSE
    /\ attempts' = attempts + 1
    /\ UNCHANGED <<others, request, messages, node, retry, ToolsLocals, event, path,
                   fault, Adapters>>

\* model_runnable.invoke(state, config) raises; except: retry -= 1
AttemptFailsWithin(rounds) ==
    /\ node = "agent" /\ event = <<>> /\ fault = "none"
    /\ LoopCond(failing, retry)
    /\ AgentSteps <= rounds
    /\ modelInput' = preprocessor(messages)
    /\ retry' = retry - 1
    /\ attempts' = attempts + 1
    /\ UNCHANGED <<others, request, messages, node, failing, response, firstReply,
                   ToolsLocals, event, path, fault, Adapters>>

AttemptSucceeds == AttemptSucceedsWith(Replies(AgentSteps + 1))

AttemptFails == AttemptFailsWithin(MaxRounds)

---------------------------------------------------------------------------
(* LangGraphChatAgent: predict and predict_stream *)

\* a node update: the dict a node returns, as agent.stream yields it
Update(keys, msgs) == [keys |-> keys, messages |-> msgs]

\* messages = []   (rebinds the parameter before the loop)
predict_init_keep(req) == req

predict_init(req) == <<>>

\* node_data.get("messages", [])
predict_get(nd) == IF "messages" \in nd.keys THEN nd.messages ELSE <<>>

\* ChatAgentChunk(**{"delta": msg}) for msg in node_data["messages"]
stream_chunks_first(nd) ==
    IF nd.messages = <<>> THEN <<>> ELSE << [delta |-> nd.messages[1]] >>

stream_chunks_reversed(nd) ==
    [i \in 1..Len(nd.messages) |->
        [delta |-> nd.messages[Len(nd.messages) + 1 - i]]]

stream_chunks(nd) == [i \in 1..Len(nd.messages) |-> [delta |-> nd.messages[i]]]

\* an exception raised inside agent.stream leaves predict without a return value
predict_raise_swallowed(status, exc) == IF status = "running" THEN "returned" ELSE status

predict_raise(status, exc) == IF status = "running" THEN exc ELSE status

\* an exception raised inside agent.stream ends the generator with that exception
stream_raise(status, exc) == IF status = "running" THEN exc ELSE status

\* both adapters take the next node update from agent.stream
Deliver ==
    /\ event # <<>>
    /\ LET nd == event[1] IN
          /\ predictMsgs' = IF predictStatus = "running"
                            THEN predictMsgs \o predict_get(nd)
                            ELSE predictMsgs
          /\ IF streamStatus # "running"
             THEN UNCHANGED <<chunks, streamStatus>>
             ELSE IF "messages" \in nd.keys
                  THEN /\ chunks' = chunks \o stream_chunks(nd)
                       /\ UNCHANGED streamStatus
                  ELSE /\ streamStatus' = "KeyError"
                       /\ UNCHANGED chunks
    /\ event' = <<>>
    /\ UNCHANGED <<others, request, messages, node, AgentLocals, modelInput,
                   ToolsLocals, path, fault, predictStatus>>

\* the graph reached END: agent.stream is exhausted, predict returns
\* ChatAgentResponse(messages=messages), the generator of predict_stream ends
Finish ==
    /\ node = "END" /\ event = <<>>
    /\ predictStatus = "running" \/ streamStatus = "running"
    /\ predictStatus' = IF predictStatus = "running" THEN "returned" ELSE predictStatus
    /\ streamStatus' = IF streamStatus = "running" THEN "stopped" ELSE streamStatus
    /\ UNCHANGED <<others, request, messages, node, AgentLocals, modelInput,
                   ToolsLocals, event, path, fault, predictMsgs, chunks>>

---------------------------------------------------------------------------
(* the agent node returns *)

\* StateGraph(ChatAgentState): a node update's messages are appended to the state
add_messages_replace(left, nd) ==
    IF "messages" \in nd.keys THEN nd.messages ELSE <<>>

add_messages_prepend(left, nd) ==
    (IF "messages" \in nd.keys THEN nd.messages ELSE <<>>) \o left

add_messages(left, nd) ==
    left \o (IF "messages" \in nd.keys THEN nd.messages ELSE <<>>)

\* return {"messages": [response]}
call_model_update(resp) == Update({"messages"}, <<resp>>)

\* the tools node is entered: no request has completed yet
EnterTools(calls) ==
    /\ results' = [i \in 1..Len(calls) |-> <<>>]
    /\ completed' = <<>>

\* the loop of call_model is over with response bound: the update is applied
\* to the state (messages are appended), should_continue picks the next node
AgentReturns ==
    /\ node = "agent" /\ event = <<>> /\ fault = "none"
    /\ ~LoopCond(failing, retry)
    /\ response # <<>>
    /\ LET nd == call_model_update(response[1])
           msgs == add_messages(messages, nd)
           next == should_continue(msgs)
       IN /\ messages' = msgs
          /\ event' = <<nd>>
          /\ node' = next
          /\ IF next = "tools"
             THEN EnterTools(Last(msgs).tool_calls)
             ELSE UNCHANGED ToolsLocals
    /\ path' = Append(path, "agent")
    /\ LeaveAgent
    /\ UNCHANGED <<others, request, modelInput, fault, Adapters>>

\* the loop of call_model is over with response never assigned:
\* `return {"messages": [response]}` raises UnboundLocalError, which leaves
\* agent.stream and the adapter iterating over it
AgentRaises ==
    /\ node = "agent" /\ event = <<>> /\ fault = "none"
    /\ ~LoopCond(failing, retry)
    /\ response = <<>>
    /\ fault' = "UnboundLocalError"
    /\ node' = "FAILED"
    /\ predictStatus' = predict_raise(predictStatus, "UnboundLocalError")
    /\ streamStatus' = stream_raise(streamStatus, "UnboundLocalError")
    /\ UNCHANGED <<others, request, messages, AgentLocals, modelInput, ToolsLocals,
                   event, path, predictMsgs, chunks>>

---------------------------------------------------------------------------
(* the tools node: ChatAgentToolNode(tools) *)

ToolResult(call, content, failed) ==
    Msg("tool", content, FALSE, <<>>, call.id, failed)

\* the tool calls the tools node works on: those of the last message
Requests == IF messages = <<>> THEN <<>> ELSE Last(messages).tool_calls

\* the tool messages of one step, request i's result at index i
tool_messages_by_completion(res, order) ==
    [k \in 1..Len(order) |-> res[order[k]][1]]

tool_messages(res, order) == [i \in 1..Len(res) |-> res[i][1]]

\* request i names a bound tool and the tool returns
ToolSucceeds(i) ==
    /\ node = "tools" /\ event = <<>>
    /\ i \in 1..Len(results) /\ results[i] = <<>>
    /\ Requests[i].name \in tools
    /\ results' = [results EXCEPT ![i] = << ToolResult(Requests[i], "4", FALSE) >>]
    /\ completed' = Append(completed, i)
    /\ UNCHANGED <<others, request, messages, node, AgentLocals, modelInput, event,
                   path, fault, Adapters>>

\* request i names no bound tool, or its tool raises: the error becomes the
\* content of a failed tool message
ToolFails(i) ==
    /\ node = "tools" /\ event = <<>>
    /\ i \in 1..Len(results) /\ results[i] = <<>>
    /\ results' = [results EXCEPT ![i] =
                     << ToolResult(Requests[i],
                                   IF Requests[i].name \in tools
                                   THEN "Error: tool raised"
                                   ELSE "Error: not a valid tool",
                                   TRUE) >>]
    /\ completed' = Append(completed, i)
    /\ UNCHANGED <<others, request, messages, node, AgentLocals, modelInput, event,
                   path, fault, Adapters>>

\* every request has its result: the tool messages are appended to the state
\* and the edge out of "tools" is taken
ToolsReturn ==
    /\ node = "tools" /\ event = <<>>
    /\ \A i \in 1..Len(results) : results[i] # <<>>
    /\ LET nd == Update({"messages", "custom_outputs"},
                        tool_messages(results, completed))
       IN /\ messages' = add_messages(messages, nd)
          /\ event' = <<nd>>
    /\ node' = tools_edge
    /\ path' = Append(path, "tools")
    /\ EnterAgent
    /\ results' = <<>>
    /\ completed' = <<>>
    /\ UNCHANGED <<others, request, modelInput, fault, Adapters>>

---------------------------------------------------------------------------
(* one invocation *)

\* workflow.add_edge(START, "agent")
start_edge_tools == "tools"

start_edge == "agent"

Init ==
    /\ request \in Inputs
    /\ messages = request
    /\ node = start_edge
    /\ failing = TRUE
    /\ retry = RetryBudget
    /\ response = <<>>
    /\ attempts = 0
    /\ firstReply = <<>>
    /\ modelInput = <<>>
    /\ results = <<>>
    /\ completed = <<>>
    /\ event = <<>>
    /\ path = <<>>
    /\ fault = "none"
    /\ predictMsgs = predict_init(request)
    /\ predictStatus = "running"
    /\ chunks = <<>>
    /\ streamStatus = "running"

Next ==
    \/ AttemptSucceeds
    \/ AttemptFails
    \/ AgentReturns
    \/ AgentRaises
    \/ \E i \in 1..MaxCalls : ToolSucceeds(i)
    \/ \E i \in 1..MaxCalls : ToolFails(i)
    \/ ToolsReturn
    \/ Deliver
    \/ Finish

\* no invocation is under way
AgentIdle == Init /\ request = << UserMsg("2+2?") >>

---------------------------------------------------------------------------
(* convert_databricks_to_jupyter.py: main on a directory *)

\* a character of a first line: whitespace, the text
\* '# Databricks notebook source' taken as one unit, or any other character
Chars == {"ws", "hdr", "x"}

Lines == UNION { [1..n -> Chars] : n \in 0..MaxLineLen }

\* the .py files under the input directory, one of them in a subdirectory
PyFiles == {"a.py", "sub/b.py"}

Depth(f) == IF f = "a.py" THEN 0 ELSE 1

\* str.strip()
RECURSIVE LStrip(_)
LStrip(l) == IF l # <<>> /\ l[1] = "ws" THEN LStrip(Tail(l)) ELSE l

RECURSIVE RStrip(_)
RStrip(l) ==
    IF l # <<>> /\ l[Len(l)] = "ws" THEN RStrip(SubSeq(l, 1, Len(l) - 1)) ELSE l

Strip(l) == RStrip(LStrip(l))

\* content.startswith('# Databricks notebook source')
StartsWithHeader(l) == l # <<>> /\ l[1] = "hdr"

\* first_line.strip() == '# Databricks notebook source'
IsHeaderLine(l) == Strip(l) = <<"hdr">>

\* directory.rglob('*.py'), whatever args.recursive is
RGlob(rec) == PyFiles

\* find_databricks_notebooks(directory)
find_databricks_notebooks(rec) ==
    { f \in RGlob(rec) : IsHeaderLine(firstLine[f]) }

\* a set as a list, in the order the directory walk gives
RECURSIVE SetToSeq(_)
SetToSeq(S) ==
    IF S = {} THEN <<>>
    ELSE LET f == CHOOSE f \in S : \A g \in S : Depth(f) <= Depth(g)
         IN <<f>> \o SetToSeq(S \ {f})

ConvInit ==
    /\ firstLine \in [PyFiles -> Lines]
    /\ recursive \in BOOLEAN
    /\ cpc = "start"
    /\ notebooks = {}
    /\ foundCount = 0
    /\ todo = <<>>
    /\ written = {}
    /\ skipped = {}

ConvIdle == ConvInit /\ firstLine = [f \in PyFiles |-> <<>>] /\ ~recursive

\* notebooks = find_databricks_notebooks(input_path); print("Found ...")
MainFind ==
    /\ cpc = "start"
    /\ notebooks' = find_databricks_notebooks(recursive)
    /\ foundCount' = Cardinality(notebooks')
    /\ todo' = SetToSeq(notebooks')
    /\ cpc' = "converting"
    /\ UNCHANGED <<vars, pairVars, firstLine, recursive, written, skipped>>

\* convert_file(notebook_path, output_path): the notebook is parsed and written
ConvertWrites ==
    /\ cpc = "converting" /\ todo # <<>>
    /\ StartsWithHeader(firstLine[Head(todo)])
    /\ written' = written \cup {Head(todo)}
    /\ todo' = Tail(todo)
    /\ UNCHANGED <<vars, pairVars, firstLine, recursive, cpc, notebooks, foundCount, skipped>>

\* convert_file(notebook_path, output_path): "doesn't appear to be a
\* Databricks notebook. Skipping."; return
ConvertSkips ==
    /\ cpc = "converting" /\ todo # <<>>
    /\ ~StartsWithHeader(firstLine[Head(todo)])
    /\ skipped' = skipped \cup {Head(todo)}
    /\ todo' = Tail(todo)
    /\ UNCHANGED <<vars, pairVars, firstLine, recursive, cpc, notebooks, foundCount, written>>

\* the loop over notebooks is over: return 0
MainDone ==
    /\ cpc = "converting" /\ todo = <<>>
    /\ cpc' = "done"
    /\ UNCHANGED <<vars, pairVars, firstLine, recursive, notebooks, foundCount, todo, written,
                   skipped>>

ConvNext ==
    \/ MainFind
    \/ ConvertWrites
    \/ ConvertSkips
    \/ MainDone

---------------------------------------------------------------------------
(* two invocations on the same agent object, interleaved node step by node step *)

Invocations == {1, 2}

PairInputs == { << UserMsg("2+2?") >>, << UserMsg("hi") >> }

\* model calls that fail before the service first answers in an agent step
PFailures == {0, 10, 11}

\* request = {...} is a local of predict / predict_stream and agent.stream
\* builds the state of a run from it: each invocation has a state of its own
StateCellShared(k) == 1

StateCell(k) == k

PState(k) == pcells[StateCell(k)]

\* retry = 10 on every entry of call_model, whatever an earlier call left
InitialRetryCarried(left) == left

InitialRetry(left) == RetryBudget

\* the loop of call_model, the first `fails` model calls raising
RECURSIVE RunLoop(_, _, _, _)
RunLoop(f, r, fails, made) ==
    IF LoopCond(f, r)
    THEN IF made < fails
         THEN RunLoop(f, r - 1, fails, made + 1)
         ELSE RunLoop(FALSE, r, fails, made + 1)
    ELSE [bound |-> ~f, retry |-> r, attempts |-> made]

PStep(k) ==
    1 + Cardinality({ i \in 1..Len(pown[k]) : pown[k][i].role = "assistant" })

PairReplies(step) ==
    LET final == { Msg("assistant", "answer", FALSE, <<>>, 0, FALSE) }
        call == { Msg("assistant", "", TRUE,
                      << ToolCall(step, 1, "execute_python_code") >>, 0, FALSE) }
    IN IF step <= PairRounds THEN final \cup call
       ELSE IF step = PairRounds + 1 THEN final
       ELSE {}

PairInit ==
    /\ pinput \in [Invocations -> PairInputs]
    /\ pcells = pinput
    /\ pnode = [k \in Invocations |-> start_edge]
    /\ pown = [k \in Invocations |-> <<>>]
    /\ presp = [k \in Invocations |-> predict_init(pinput[k])]
    /\ pstatus = [k \in Invocations |-> "running"]
    /\ pretry = [k \in Invocations |-> RetryBudget]
    /\ pfails = [k \in Invocations |-> <<>>]

PairIdle ==
    /\ pinput = [k \in Invocations |-> << UserMsg("2+2?") >>]
    /\ pcells = pinput
    /\ pnode = [k \in Invocations |-> "END"]
    /\ pown = [k \in Invocations |-> <<>>]
    /\ presp = [k \in Invocations |-> <<>>]
    /\ pstatus = [k \in Invocations |-> "returned"]
    /\ pretry = [k \in Invocations |-> RetryBudget]
    /\ pfails = [k \in Invocations |-> <<>>]

\* a node update of invocation k: applied to its state, handed to its adapter
PApply(k, nd, next) ==
    /\ pcells' = [pcells EXCEPT ![StateCell(k)] = add_messages(@, nd)]
    /\ pown' = [pown EXCEPT ![k] = @ \o nd.messages]
    /\ presp' = [presp EXCEPT ![k] = @ \o predict_get(nd)]
    /\ pnode' = [pnode EXCEPT ![k] = next]

\* the agent node of invocation k: call_model returns a reply
PAgentReturns(k) ==
    /\ pnode[k] = "agent" /\ pstatus[k] = "running"
    /\ \E fails \in PFailures, reply \in PairReplies(PStep(k)) :
          LET run == RunLoop(TRUE, InitialRetry(pretry[k]), fails, 0)
              nd == call_model_update(reply)
          IN /\ run.bound
             /\ PApply(k, nd, should_continue(add_messages(PState(k), nd)))
             /\ pretry' = [pretry EXCEPT ![k] = run.retry]
             /\ pfails' = [pfails EXCEPT ![k] = Append(@, fails)]
    /\ UNCHANGED <<vars, convVars, pinput, pstatus>>

\* the agent node of invocation k: call_model leaves its loop with response
\* unbound and raises
PAgentRaises(k) ==
    /\ pnode[k] = "agent" /\ pstatus[k] = "running"
    /\ PStep(k) <= PairRounds + 1
    /\ \E fails \in PFailures :
          LET run == RunLoop(TRUE, InitialRetry(pretry[k]), fails, 0)
          IN /\ ~run.bound
             /\ pretry' = [pretry EXCEPT ![k] = run.retry]
             /\ pfails' = [pfails EXCEPT ![k] = Append(@, fails)]
    /\ pnode' = [pnode EXCEPT ![k] = "FAILED"]
    /\ pstatus' = [pstatus EXCEPT ![k] = predict_raise(@, "UnboundLocalError")]
    /\ UNCHANGED <<vars, convVars, pinput, pcells, pown, presp>>

\* the tools node of invocation k serves the tool calls of the last message
\* of its state, each tool returning or raising
PTools(k) ==
    /\ pnode[k] = "tools" /\ pstatus[k] = "running"
    /\ LET reqs == Last(PState(k)).tool_calls IN
       \E raised \in [1..Len(reqs) -> BOOLEAN] :
          PApply(k,
                 Update({"messages", "custom_outputs"},
                        [i \in 1..Len(reqs) |->
                            ToolResult(reqs[i],
                                       IF raised[i] THEN "Error: tool raised" ELSE "4",
                                       raised[i])]),
                 tools_edge)
    /\ UNCHANGED <<vars, convVars, pinput, pstatus, pretry, pfails>>

\* invocation k is at END: its adapter returns
PFinish(k) ==
    /\ pnode[k] = "END" /\ pstatus[k] = "running"
    /\ pstatus' = [pstatus EXCEPT ![k] = "returned"]
    /\ UNCHANGED <<vars, convVars, pinput, pcells, pnode, pown, presp, pretry,
                   pfails>>

PairNext ==
    \/ \E k \in Invocations : PAgentReturns(k)
    \/ \E k \in Invocations : PAgentRaises(k)
    \/ \E k \in Invocations : PTools(k)
    \/ \E k \in Invocations : PFinish(k)

---------------------------------------------------------------------------
(* the specifications *)

allVars == <<vars, convVars, pairVars>>

\* one invocation, no conversion under way
InvocationInit == Init /\ ConvIdle /\ PairIdle

\* two concurrent invocations
ConcurrentInit == PairInit /\ AgentIdle /\ ConvIdle

PairSpec == ConcurrentInit /\ [][PairNext]_allVars

Spec == InvocationInit /\ [][Next]_allVars

\* a running invocation keeps running: the graph loop and the adapters are
\* plain sequential code
FairSpec == Spec /\ WF_allVars(Next)

\* one conversion, no invocation under way
ConversionInit == ConvInit /\ AgentIdle /\ PairIdle

ConvSpec == ConversionInit /\ [][ConvNext]_allVars

---------------------------------------------------------------------------
(* one invocation against a language model that asks for a tool in every reply *)

\* the only reply of that language model: one call of a bound tool; the run
\* is followed for LoopRounds round-trips
LoopReplies(step) ==
    IF step <= LoopRounds
    THEN { Msg("assistant", "", TRUE,
               << ToolCall(step, 1, "execute_python_code") >>, 0, FALSE) }
    ELSE {}

LoopNext ==
    \/ AttemptSucceedsWith(LoopReplies(AgentSteps + 1))
    \/ AttemptFailsWithin(LoopRounds)
    \/ AgentReturns
    \/ AgentRaises
    \/ \E i \in 1..MaxCalls : ToolSucceeds(i)
    \/ \E i \in 1..MaxCalls : ToolFails(i)
    \/ ToolsReturn
    \/ Deliver

LoopSpec == InvocationInit /\ [][LoopNext]_allVars

---------------------------------------------------------------------------
(* Properties *)

HasCalls(m) == m.has_tool_calls /\ Len(m.tool_calls) > 0

Deltas(cs) == [i \in 1..Len(cs) |-> cs[i].delta]

\* the messages the node steps of this invocation appended to the state
Appended == SubSeq(messages, Len(request) + 1, Len(messages))

Done == node = "END" /\ predictStatus = "returned" /\ streamStatus = "stopped"

\* C1: buffered/streaming equivalence.  When predict returns, predict_stream
\* over the same input, model replies and tool results has stopped without an
\* exception and the deltas of its chunks, in order, are exactly the messages
\* of the response of predict.
C1_BufferedEqualsStreamed ==
    predictStatus = "returned" =>
        /\ streamStatus = "stopped"
        /\ Deltas(chunks) = predictMsgs

\* a run with a tools step of two requests has returned
C1_Witness ==
    /\ predictStatus = "returned"
    /\ Len(predictMsgs) >= 4
    /\ predictMsgs[2].role = "tool" /\ predictMsgs[3].role = "tool"

\* C2: bounded retry.  In one agent step the model is called at most 11
\* times, at most one of the calls succeeds (no call follows a success), and
\* the message the step appends is the reply of that first success.
C2_BoundedRetry ==
    LET failures == RetryBudget - retry
        successes == attempts - failures
    IN /\ attempts <= 11
       /\ successes \in {0, 1}
       /\ (successes = 1) <=> ~failing
       /\ (successes = 1) => response = firstReply
       /\ node \in {"tools", "END"} => Last(messages) = firstReply[1]

\* the eleventh attempt of a step is the one that succeeds
C2_Witness == ~failing /\ attempts = 11 /\ retry = 0 /\ response # <<>>

\* C3: exhausted retries.  An invocation in which an agent step fails 11
\* times fails with ModelUnavailable and nothing else, predict returns no
\* response and predict_stream has emitted no chunk.
C3_ModelUnavailable ==
    fault # "none" =>
        /\ fault = "ModelUnavailable"
        /\ predictStatus = "ModelUnavailable"
        /\ streamStatus = "ModelUnavailable"
        /\ chunks = <<>>

\* C4 as stated: once an agent step has exhausted its retries the caller has
\* received no message in either mode.
C4_NoPartialAnyMode ==
    fault # "none" => (predictStatus # "returned" /\ chunks = <<>>)

\* C4 amended: once an agent step has exhausted its retries, predict raises
\* and returns no response; predict_stream raises after having emitted
\* exactly the messages of the node steps completed before the failing step
\* (no chunk when the first agent step is the one that fails).
C4_NoPartialBuffered ==
    fault # "none" =>
        /\ predictStatus = fault
        /\ streamStatus = fault
        /\ Deltas(chunks) = Appended
        /\ path = <<>> => chunks = <<>>

\* the second agent step fails after an agent and a tools step were streamed
C4_Witness ==
    /\ fault # "none"
    /\ path = <<"agent", "tools">>
    /\ Len(chunks) >= 2

\* C5: router decision.  After an agent step the next node is "tools" exactly
\* when the last message has a non-empty tool_calls list and END otherwise;
\* an empty list and a missing field both give END.
C5_RouterDecision ==
    /\ node = "tools" => HasCalls(Last(messages))
    /\ node = "END" => ~HasCalls(Last(messages))
    /\ path # <<>> /\ Last(path) = "agent" => node \in {"tools", "END"}
    /\ \A m \in FinalReplies : should_continue(<<m>>) = "END"
    /\ \A m \in ToolReplies(1) : should_continue(<<m>>) = "tools"

\* a reply carrying an empty tool_calls list was routed to END
C5_Witness ==
    /\ node = "END"
    /\ Last(messages).has_tool_calls
    /\ Last(messages).tool_calls = <<>>

\* the tool calls of the assistant message at index j of the state, and
\* whether the tools step that serves them has already returned
CallsAt(j) == messages[j].tool_calls

Served(j) ==
    /\ j \in (Len(request) + 1)..Len(messages)
    /\ messages[j].role = "assistant"
    /\ HasCalls(messages[j])
    /\ j < Len(messages)

\* C6: when the first successful reply of the model has an empty or missing
\* tool_calls list, the graph is at END after exactly one agent step: no
\* tools step runs, nothing else is appended and the model is not called again.
C6_OneStepWhenNoToolCalls ==
    (Len(messages) > Len(request) /\ ~HasCalls(messages[Len(request) + 1])) =>
        /\ path = <<"agent">>
        /\ node = "END"
        /\ Len(messages) = Len(request) + 1
        /\ attempts = 0

\* a one-step run has ended, its first reply carrying an empty tool_calls list
C6_Witness ==
    /\ Done
    /\ path = <<"agent">>
    /\ messages[Len(request) + 1].has_tool_calls

\* C7: termination.  A run in which no agent step exhausts its retries and
\* the model stops asking for tools reaches END, predict returns and the
\* generator of predict_stream stops.
C7_Termination == <>(fault # "none" \/ Done)

\* a run with a tool round-trip has ended in both modes
C7_Witness == Done /\ ToolsSteps >= 1 /\ Len(chunks) >= 3

\* C8: tool failures are absorbed.  A request naming an unregistered tool, or
\* whose tool raises, gets a failed tool message at its own index, the other
\* requests of the step get theirs, no fault leaves the tools node and the
\* agent node runs next.
C8_ToolFailuresAbsorbed ==
    /\ \A j \in 1..Len(messages) : Served(j) =>
          \A i \in 1..Len(CallsAt(j)) :
             /\ j + i <= Len(messages)
             /\ messages[j + i].role = "tool"
             /\ messages[j + i].tool_call_id = CallsAt(j)[i].id
             /\ CallsAt(j)[i].name \notin tools => messages[j + i].failed
             /\ messages[j + i].content = "Error: tool raised"
                   => messages[j + i].failed
    /\ node = "tools" => fault = "none"
    /\ (path # <<>> /\ Last(path) = "tools") => node \in {"agent", "FAILED"}
    /\ fault # "none" => (node = "FAILED" /\ results = <<>>)

\* a run reached END after a tools step in which one request named an
\* unregistered tool and the tool of another one raised
C8_Witness ==
    /\ Done
    /\ \E j \in 1..Len(messages) :
          /\ Served(j)
          /\ Len(CallsAt(j)) = 2
          /\ \E a, b \in 1..2 :
                /\ CallsAt(j)[a].name \notin tools
                /\ messages[j + a].failed
                /\ CallsAt(j)[b].name \in tools
                /\ messages[j + b].content = "Error: tool raised"

\* C9: tool result ordering.  A tools step serving N requests appends exactly
\* N tool messages, and the i-th of them carries the id of request i, in
\* whatever order the requests completed.
C9_ToolResultOrdering ==
    \A j \in 1..Len(messages) : Served(j) =>
        LET n == Len(CallsAt(j)) IN
        /\ j + n <= Len(messages)
        /\ \A i \in 1..n :
              /\ messages[j + i].role = "tool"
              /\ messages[j + i].tool_call_id = CallsAt(j)[i].id
        /\ j + n < Len(messages) => messages[j + n + 1].role # "tool"

\* a tools step of two requests has returned
C9_Witness ==
    \E j \in 1..Len(messages) :
        /\ Served(j)
        /\ Len(CallsAt(j)) = 2
        /\ path # <<>> /\ Last(path) = "tools"

\* C10: response content.  The response predict returns is exactly the
\* messages the node steps appended, in order: it holds no input message and
\* no system message, every assistant message with tool calls is followed by
\* its tool results, and the last message is an assistant message without
\* tool calls.  Without a tools step it is one message; with one tools step
\* of one request it is three.
C10_ResponseContent ==
    predictStatus = "returned" =>
        /\ predictMsgs = Appended
        /\ Len(predictMsgs) = Len(messages) - Len(request)
        /\ \A i \in 1..Len(predictMsgs) : predictMsgs[i].role # "system"
        /\ predictMsgs[1].role = "assistant"
        /\ Last(predictMsgs).role = "assistant"
        /\ ~HasCalls(Last(predictMsgs))
        /\ \A i \in 1..Len(predictMsgs) :
              HasCalls(predictMsgs[i]) =>
                 \A k \in 1..Len(predictMsgs[i].tool_calls) :
                    /\ i + k < Len(predictMsgs)
                    /\ predictMsgs[i + k].tool_call_id
                          = predictMsgs[i].tool_calls[k].id
        /\ ToolsSteps = 0 => Len(predictMsgs) = 1
        /\ (ToolsSteps = 1 /\ Len(predictMsgs[1].tool_calls) = 1) =>
              /\ Len(predictMsgs) = 3
              /\ predictMsgs[2].role = "tool"

\* the response of a run with one tool round-trip of one request, for an
\* input of three messages
C10_Witness ==
    /\ predictStatus = "returned"
    /\ Len(request) = 3
    /\ Len(predictMsgs) = 3
    /\ HasCalls(predictMsgs[1])

\* C13: transition structure.  The executed nodes are agent, then zero or
\* more (tools, agent) pairs: the first node is agent, tools runs only right
\* after an agent step whose reply has tool calls, agent runs right after
\* every tools step, and END is entered only right after an agent step whose
\* reply has no tool calls.
C13_TransitionStructure ==
    /\ \A i \in 1..Len(path) :
          path[i] = (IF i % 2 = 1 THEN "agent" ELSE "tools")
    /\ node = "agent" => (path = <<>> \/ path[Len(path)] = "tools")
    /\ node = "tools" =>
          /\ path # <<>> /\ path[Len(path)] = "agent"
          /\ messages # <<>> /\ HasCalls(Last(messages))
    /\ node = "END" =>
          /\ path # <<>> /\ path[Len(path)] = "agent"
          /\ messages # <<>> /\ ~HasCalls(Last(messages))
    /\ node = "FAILED" => (path = <<>> \/ path[Len(path)] = "tools")

\* END was entered after agent, tools, agent
C13_Witness == node = "END" /\ path = <<"agent", "tools", "agent">>

\* C14: streaming is incremental and ordered.  While a node executes, every
\* message of the earlier node steps has already been emitted as a chunk of
\* its own; the chunks are the appended messages in order, the messages of a
\* step still being handed over following them in the order the step
\* produced them; a run of more than one step has chunks out before END.
C14_IncrementalStreaming ==
    LET pending == IF event = <<>> THEN <<>> ELSE event[1].messages IN
    /\ streamStatus = "running" => Deltas(chunks) \o pending = Appended
    /\ (attempts > 0 \/ completed # <<>>) =>
          (event = <<>> /\ Deltas(chunks) = Appended)
    /\ Len(path) >= 2 => (chunks # <<>> /\ Len(chunks) >= Len(path) - 1)

\* the second agent step is executing, the chunks of the agent step and of a
\* tools step of two requests are out, and END has not been reached
C14_Witness ==
    /\ node = "agent" /\ attempts > 0
    /\ path = <<"agent", "tools">>
    /\ Len(chunks) = 3

\* the tool-call ids requested by assistant messages before index i
RequestedBefore(i) ==
    UNION { { messages[j].tool_calls[k].id :
                k \in 1..Len(messages[j].tool_calls) } :
            j \in { j \in 1..(i - 1) : messages[j].role = "assistant" } }

\* C15 as stated: in every reachable state every tool message, appended or
\* supplied by the caller, answers a request of an earlier assistant message.
C15_ToolCallIdMatching ==
    \A i \in 1..Len(messages) :
        messages[i].role = "tool" =>
            messages[i].tool_call_id \in RequestedBefore(i)

\* C15 amended: in every reachable state every tool message the tools node
\* appended answers a request of an earlier assistant message of the same
\* conversation; the messages the caller supplied are taken as they are.
C15_AppendedToolCallIdMatching ==
    \A i \in (Len(request) + 1)..Len(messages) :
        messages[i].role = "tool" =>
            messages[i].tool_call_id \in RequestedBefore(i)

\* a tools step of two requests has returned in a conversation whose input
\* holds a tool message that answers no request
C15_Witness ==
    /\ \E i \in 1..Len(request) :
          request[i].role = "tool" /\ request[i].tool_call_id \notin RequestedBefore(i)
    /\ Len(messages) >= Len(request) + 3
    /\ messages[Len(request) + 3].role = "tool"

IsPrefix(s, t) == Len(s) <= Len(t) /\ SubSeq(t, 1, Len(s)) = s

\* C16: append-only conversation.  Every step leaves the old message
\* sequence as a prefix of the new one; an agent step appends one message, a
\* tools step one message per tool-call request, and any other step (a
\* failed or successful model-call attempt, a tool completing, a hand-over to
\* the adapters) leaves the sequence as it is.
C16_AppendOnly ==
    [][ /\ IsPrefix(messages, messages')
        /\ path' = Append(path, "agent") => Len(messages') = Len(messages) + 1
        /\ path' = Append(path, "tools") =>
              Len(messages') = Len(messages) + Len(Last(messages).tool_calls)
        /\ path' = path => messages' = messages ]_vars

\* the state after an agent step, a tools step of two requests and a second
\* agent step that succeeded after failed attempts
C16_Witness ==
    /\ Len(messages) = Len(request) + 4
    /\ path = <<"agent", "tools", "agent">>

\* C17: model input and frame.  Every model-call attempt of a step, retries
\* included, receives the system message with the fixed preamble followed by
\* the state's messages, which the attempts leave as they are; no system
\* message is ever appended to the state.
C17_ModelInput ==
    /\ attempts > 0 =>
          /\ node \in {"agent", "FAILED"}
          /\ modelInput # <<>>
          /\ modelInput[1].role = "system"
          /\ modelInput[1].content = "You are a Databricks expert. "
          /\ Tail(modelInput) = messages
    /\ \A i \in (Len(request) + 1)..Len(messages) : messages[i].role # "system"

\* the third attempt of the second agent step has been made
C17_Witness ==
    /\ attempts = 3 /\ failing
    /\ path = <<"agent", "tools">>

\* the replies with tool calls the model has given in this invocation
ToolRequestingReplies ==
    Cardinality({ i \in (Len(request) + 1)..Len(messages) :
                    messages[i].role = "assistant" /\ HasCalls(messages[i]) })

\* C18: no iteration cap.  Against a language model that asks for a tool in
\* every reply the graph never enters END and neither adapter finishes: after
\* N such replies N agent steps have run, N tools steps have run once the
\* tools node has served the last of them, and the agent node runs again.
C18_NoIterationCap ==
    /\ node # "END"
    /\ predictStatus # "returned" /\ streamStatus # "stopped"
    /\ AgentSteps = ToolRequestingReplies
    /\ ToolsSteps = (IF node = "tools" THEN AgentSteps - 1 ELSE AgentSteps)
    /\ node = "agent" => ToolsSteps = AgentSteps

\* after three replies asking for a tool, three tools steps have run and the
\* fourth agent step is calling the model
C18_Witness ==
    /\ ToolRequestingReplies = 3
    /\ ToolsSteps = 3
    /\ node = "agent" /\ attempts > 0

\* C12: the --recursive flag decides whether subdirectories are searched:
\* a notebook in a subdirectory is found and converted only when the flag is
\* given.
C12_RecursiveFlag ==
    cpc # "start" =>
        \A f \in notebooks \cup written : Depth(f) > 0 => recursive

\* C20: discovery and conversion agree.  For a directory input every file
\* find_databricks_notebooks returned has been converted when main is done,
\* so the number printed as found is the number of notebooks written; and no
\* output is written for a file convert_file rejected.
C20_DiscoveryConversionAgreement ==
    cpc = "done" =>
        /\ notebooks \subseteq written
        /\ foundCount = Cardinality(written)
        /\ skipped \cap written = {}

\* C11: invocation isolation.  In every interleaving of the node steps of
\* two concurrent invocations, the conversation state of each is its own
\* input followed by what its own model and tool calls returned, and the
\* messages handed to its caller are those its own calls returned: nothing of
\* the other invocation is in either.
C11_InvocationIsolation ==
    \A k \in Invocations :
        /\ PState(k) = pinput[k] \o pown[k]
        /\ presp[k] = pown[k]
        /\ \A j \in Invocations \ {k} :
              pinput[j] # pinput[k] =>
                 \A i \in 1..Len(pinput[j]) :
                    /\ \A n \in 1..Len(PState(k)) : PState(k)[n] # pinput[j][i]
                    /\ \A n \in 1..Len(presp[k]) : presp[k][n] # pinput[j][i]

\* two invocations with different inputs: the second has been through its
\* agent and tools steps while the first stands between its own two
C11_Witness ==
    /\ pinput[1] # pinput[2]
    /\ pnode[1] = "tools" /\ Len(pown[1]) = 1
    /\ pnode[2] = "agent" /\ Len(pown[2]) = 2

\* C19: transient failures are invisible.  Up to 10 failed model calls in an
\* agent step never fail the invocation, whatever earlier steps went through,
\* since every step counts retry down from 10; and two runs with the same
\* input and the same replies, neither of which has run out of attempts, have
\* the same state and the same response, however many calls failed in each.
C19_TransientFailuresInvisible ==
    /\ \A k \in Invocations :
          /\ pstatus[k] \notin {"running", "returned"} =>
                (pfails[k] # <<>> /\ pfails[k][Len(pfails[k])] > 10)
          /\ (pfails[k] # <<>> /\ pfails[k][Len(pfails[k])] <= 10) =>
                /\ pstatus[k] \in {"running", "returned"}
                /\ pretry[k] = 10 - pfails[k][Len(pfails[k])]
    /\ (/\ pinput[1] = pinput[2] /\ pown[1] = pown[2]
        /\ \A k \in Invocations : pstatus[k] \in {"running", "returned"}) =>
          /\ PState(1) = PState(2)
          /\ presp[1] = presp[2]
          /\ pnode[1] = pnode[2]

\* two runs with the same input and the same replies have returned, one after
\* 10 failed calls in each of its two agent steps, the other after none
C19_Witness ==
    /\ pinput[1] = pinput[2] /\ pown[1] = pown[2]
    /\ pstatus[1] = "returned" /\ pstatus[2] = "returned"
    /\ pfails[1] = <<10, 10>> /\ pfails[2] = <<0, 0>>
    /\ Len(presp[1]) = 3

=============================================================================
